---------------------------- MODULE Spec2Model ----------------------------
(*
  point_cloud_transport: a model of

    - SimpleSubscriberPlugin<M> (simple_subscriber_plugin.hpp): the
      subscription adapter, driven by one control thread (subscribe,
      shutdown, getTopic, getNumPublishers, destruction) and by the delivery
      thread of the hosting runtime, which runs the trampoline lambda that
      subscribeImpl registers;
    - list_transports (list_transports.cpp): the registry inspector, a
      single-threaded run over the two plugin registries.

  The two programs share no state.  Spec runs the adapter and leaves the
  inspector where it starts; InspectorSpec runs the inspector and leaves the
  adapter where it starts.
*)
EXTENDS Integers, Sequences, FiniteSets, TLC

\* ------------------------------------------------------------------ bounds

\* subscribe calls made on one adapter (each call gets the next handle id)
MaxSubscribes == 2
\* wire messages that arrive during one run
MaxMsgs == 2
\* publishers the runtime can report as matched on a topic
MaxPublishers == 1
\* lookup names one plugin registry declares
MaxDeclared == 2

\* --------------------------------------------------------------- vocabulary

SubIds == 1..MaxSubscribes
NoSub == 0
NoMsg == 0

\* base topics and user callbacks a caller can pass to subscribe
BaseTopics == {"a", "b"}
Callbacks == {"cb1", "cb2"}
NoCallback == "none"
TransportName == "raw"

\* std::string{}
EmptyTopic == <<>>

\* the outcome of a query: the value it returned, or a fault (the call did not
\* return)
Returned(v) == [fault |-> FALSE, value |-> v]
FaultedTopic == [fault |-> TRUE, value |-> EmptyTopic]
FaultedCount == [fault |-> TRUE, value |-> 0]

\* how one internalCallback invocation can end: the subclass hands the decoded
\* cloud to user_cb, drops the message, or lets an exception out
Outcomes == {"delivered", "dropped", "threw"}

VARIABLES
    \* ---- SimpleSubscriberPlugin
    impl_,        \* "null" or "set": std::unique_ptr<Impl> impl_
    sub_,         \* impl_->sub_: a handle id, or NoSub for a null shared_ptr
    life,         \* "alive", "subclassGone" (the subclass part is destroyed,
                  \*  the base part is not yet), "gone"
    \* ---- the hosting runtime's subscriptions, by handle id
    holders,      \* holders[s]: who holds a shared_ptr to subscription s
    subTopic,     \* the topic s was created on
    subCb,        \* the callback captured by the trampoline of s
    pending,      \* wire messages queued on s, not yet dispatched
    pubCount,     \* publishers matched on s
    nextSub,      \* the id the next subscribe call uses
    nextMsg,      \* the id of the next wire message
    \* ---- the delivery thread
    dpc,          \* "idle", "running" (inside a trampoline), "stopped"
    dSub,         \* the subscription whose trampoline runs
    dMsg,         \* the message it was called with
    \* ---- what has been observed
    decodeLog,    \* one record per internalCallback invocation
    userCalls,    \* one record per invocation of a user callback
    escaped,      \* exceptions that left a trampoline
    lastCall,     \* the control thread's last call: which one, the state it
                  \* found the adapter in, its arguments and what it returned
    \* ---- list_transports
    ipc,             \* position of main(): "idle" (not started), "pub", "sub",
                     \* "summary", "details", "done"
    pubDeclared,     \* pub_loader.getDeclaredClasses()
    subDeclared,     \* sub_loader.getDeclaredClasses()
    idx,             \* position of the running loop over a registry
    transports,      \* StatusMap transports
    problem_package, \* bool problem_package
    summary,         \* the "Declared transports:" lines printed so far
    details,         \* the "Details:" blocks printed so far
    exitCode,        \* what main() returned, -1 before it returns
    probes           \* the createUniqueInstance calls made so far

adapterVars == <<impl_, sub_, life>>
runtimeVars == <<holders, subTopic, subCb, pending, pubCount, nextSub, nextMsg>>
deliveryVars == <<dpc, dSub, dMsg>>
logVars == <<decodeLog, userCalls, escaped>>
inspectorVars == <<ipc, pubDeclared, subDeclared, idx, transports,
                   problem_package, summary, details, exitCode, probes>>

vars == <<adapterVars, runtimeVars, deliveryVars, logVars, lastCall,
          inspectorVars>>

\* ------------------------------------------------------- runtime: handles

\* a subscription object exists from create_subscription until the last
\* shared_ptr to it is dropped
SubAlive(s) == holders[s] # {}

\* getTopicToSubscribe: <base topic>/<transport name>
getTopicToSubscribe(base_topic) == <<base_topic, "/", TransportName>>

\* one holder lets go of its shared_ptr to s; the subscription is destroyed,
\* and what is queued on it is discarded, when that was the last one
DropRef(h, who, s) ==
    IF s = NoSub THEN h ELSE [h EXCEPT ![s] = @ \ {who}]

\* a destroyed subscription takes along its queue and its trampoline, with
\* the callback the trampoline captured
PendingAfter(h, p) ==
    [s \in SubIds |-> IF h[s] = {} THEN <<>> ELSE p[s]]

TopicAfter(h, t) ==
    [s \in SubIds |-> IF h[s] = {} THEN EmptyTopic ELSE t[s]]

CbAfter(h, c) ==
    [s \in SubIds |-> IF h[s] = {} THEN NoCallback ELSE c[s]]

\* publishers are counted for the subscription the adapter holds
CountAfter(h, n) ==
    [s \in SubIds |-> IF "adapter" \in h[s] THEN n[s] ELSE 0]

\* (variant) Impl owns the subscription alone: destroying the Impl destroys
\* the subscription whoever else is using it
ReleaseImplExclusive(h) ==
    IF impl_ = "set" /\ sub_ # NoSub THEN [h EXCEPT ![sub_] = {}] ELSE h

\* what destroying the Impl that impl_ owns does to the handles: its sub_
\* member lets go of the subscription (nothing to do for a null impl_)
ReleaseImpl(h) ==
    IF impl_ = "set" THEN DropRef(h, "adapter", sub_) ELSE h

\* ---------------------------------------------------------------- queries

\* (variant) getTopic() answers from the subscriptions the runtime still
\* has when impl_ is null
getTopicCached ==
    IF impl_ = "set"
    THEN IF sub_ # NoSub
         THEN {Returned(subTopic[sub_])}
         ELSE {FaultedTopic}
    ELSE IF \E s \in SubIds : SubAlive(s)
         THEN {Returned(subTopic[s]) : s \in {x \in SubIds : SubAlive(x)}}
         ELSE {Returned(EmptyTopic)}

\* getTopic(): the values the call can produce in the current state.  With
\* impl_ set and sub_ null the call dereferences a null shared_ptr.
getTopic ==
    IF impl_ = "set"
    THEN IF sub_ # NoSub
         THEN {Returned(subTopic[sub_])}
         ELSE {FaultedTopic, Returned(EmptyTopic)}
              \cup {Returned(getTopicToSubscribe(b)) : b \in BaseTopics}
    ELSE {Returned(EmptyTopic)}

\* getNumPublishers(): likewise
getNumPublishers ==
    IF impl_ = "set"
    THEN IF sub_ # NoSub
         THEN {Returned(pubCount[sub_])}
         ELSE {FaultedCount} \cup {Returned(n) : n \in 0..MaxPublishers}
    ELSE {Returned(0)}

\* the state of the adapter as a caller sees it before a call
PreKind ==
    IF impl_ = "set"
    THEN IF sub_ # NoSub THEN "active" ELSE "failed"
    ELSE IF nextSub > 1 THEN "shutdown" ELSE "never"

NoResult == [fault |-> FALSE, value |-> "void"]

\* ------------------------------------------------------------------- Init

InitAdapter ==
    /\ impl_ = "null"
    /\ sub_ = NoSub
    /\ life = "alive"
    /\ holders = [s \in SubIds |-> {}]
    /\ subTopic = [s \in SubIds |-> EmptyTopic]
    /\ subCb = [s \in SubIds |-> NoCallback]
    /\ pending = [s \in SubIds |-> <<>>]
    /\ pubCount = [s \in SubIds |-> 0]
    /\ nextSub = 1
    /\ nextMsg = 1
    /\ dpc = "idle"
    /\ dSub = NoSub
    /\ dMsg = NoMsg
    /\ decodeLog = <<>>
    /\ userCalls = <<>>
    /\ escaped = 0
    /\ lastCall = [op |-> "none", pre |-> "never", arg |-> <<>>,
                   result |-> NoResult]

InitInspectorIdle ==
    /\ ipc = "idle"
    /\ pubDeclared = <<>>
    /\ subDeclared = <<>>
    /\ idx = 1
    /\ transports = <<>>
    /\ problem_package = FALSE
    /\ summary = <<>>
    /\ details = <<>>
    /\ exitCode = -1
    /\ probes = <<>>

Init == InitAdapter /\ InitInspectorIdle

\* ------------------------------------------------- control thread: adapter

\* (variant) subscribeImpl gives up the old Impl with impl_.release() before
\* it makes the new one: the previous subscription is never destroyed
DoSubscribeKeepsPrevious(base_topic, callback, accepted) ==
    /\ life = "alive"
    /\ nextSub <= MaxSubscribes
    /\ LET s == nextSub
       IN  /\ impl_' = "set"
           /\ IF accepted
              THEN /\ sub_' = s
                   /\ holders' = [holders EXCEPT ![s] = {"adapter"}]
                   /\ subTopic' = [subTopic EXCEPT ![s] = getTopicToSubscribe(base_topic)]
                   /\ subCb' = [subCb EXCEPT ![s] = callback]
              ELSE /\ sub_' = NoSub
                   /\ UNCHANGED <<holders, subTopic, subCb>>
           /\ UNCHANGED <<pending, pubCount>>
    /\ nextSub' = nextSub + 1
    /\ lastCall' = [op |-> IF accepted THEN "subscribe" ELSE "subscribeThrew",
                    pre |-> PreKind, arg |-> <<base_topic, callback>>,
                    result |-> NoResult]
    /\ UNCHANGED <<life, nextMsg, deliveryVars, logVars, inspectorVars>>

\* subscribeImpl(node, base_topic, callback, custom_qos).  accepted = FALSE is
\* the runtime rejecting the subscription (create_subscription or the QoS
\* constructor throws): impl_ already holds the new, empty Impl by then.
DoSubscribe(base_topic, callback, accepted) ==
    /\ life = "alive"
    /\ nextSub <= MaxSubscribes
    /\ LET released == ReleaseImpl(holders)
           s == nextSub
       IN  /\ impl_' = "set"
           /\ IF accepted
              THEN /\ sub_' = s
                   /\ holders' = [released EXCEPT ![s] = {"adapter"}]
                   /\ subTopic' = [TopicAfter(released, subTopic)
                                     EXCEPT ![s] = getTopicToSubscribe(base_topic)]
                   /\ subCb' = [CbAfter(released, subCb) EXCEPT ![s] = callback]
              ELSE /\ sub_' = NoSub
                   /\ holders' = released
                   /\ subTopic' = TopicAfter(released, subTopic)
                   /\ subCb' = CbAfter(released, subCb)
           /\ pending' = PendingAfter(released, pending)
           /\ pubCount' = CountAfter(released, pubCount)
    /\ nextSub' = nextSub + 1
    /\ lastCall' = [op |-> IF accepted THEN "subscribe" ELSE "subscribeThrew",
                    pre |-> PreKind, arg |-> <<base_topic, callback>>,
                    result |-> NoResult]
    /\ UNCHANGED <<life, nextMsg, deliveryVars, logVars, inspectorVars>>

subscribeImpl ==
    \E b \in BaseTopics, cb \in Callbacks, accepted \in BOOLEAN :
        DoSubscribe(b, cb, accepted)

\* subscribeImplWithOptions: the same steps; the options go to the runtime
subscribeImplWithOptions ==
    \E b \in BaseTopics, cb \in Callbacks, accepted \in BOOLEAN :
        DoSubscribe(b, cb, accepted)

\* (variant) shutdown() as impl_->sub_.reset(): the Impl stays, and a null
\* impl_ is dereferenced
shutdownResetsSub ==
    /\ life = "alive"
    /\ holders' = ReleaseImpl(holders)
    /\ pending' = PendingAfter(holders', pending)
    /\ subTopic' = TopicAfter(holders', subTopic)
    /\ subCb' = CbAfter(holders', subCb)
    /\ pubCount' = CountAfter(holders', pubCount)
    /\ impl_' = impl_
    /\ sub_' = NoSub
    /\ lastCall' = [op |-> "shutdown", pre |-> PreKind, arg |-> <<>>,
                    result |-> [fault |-> (impl_ = "null"), value |-> "void"]]
    /\ UNCHANGED <<life, nextSub, nextMsg, deliveryVars, logVars, inspectorVars>>

\* (variant) shutdown() as impl_.release(): the Impl, and with it the
\* subscription, is leaked instead of destroyed
shutdownLeaksImpl ==
    /\ life = "alive"
    /\ impl_' = "null"
    /\ sub_' = NoSub
    /\ lastCall' = [op |-> "shutdown", pre |-> PreKind, arg |-> <<>>,
                    result |-> NoResult]
    /\ UNCHANGED <<life, runtimeVars, deliveryVars, logVars, inspectorVars>>

\* (variant) shutdown() as impl_ = std::make_unique<Impl>(): the old Impl is
\* destroyed and an empty one takes its place
shutdownFreshImpl ==
    /\ life = "alive"
    /\ holders' = ReleaseImpl(holders)
    /\ pending' = PendingAfter(holders', pending)
    /\ subTopic' = TopicAfter(holders', subTopic)
    /\ subCb' = CbAfter(holders', subCb)
    /\ pubCount' = CountAfter(holders', pubCount)
    /\ impl_' = "set"
    /\ sub_' = NoSub
    /\ lastCall' = [op |-> "shutdown", pre |-> PreKind, arg |-> <<>>,
                    result |-> NoResult]
    /\ UNCHANGED <<life, nextSub, nextMsg, deliveryVars, logVars, inspectorVars>>

\* shutdown(): impl_.reset()
shutdown ==
    /\ life = "alive"
    /\ holders' = ReleaseImpl(holders)
    /\ pending' = PendingAfter(holders', pending)
    /\ subTopic' = TopicAfter(holders', subTopic)
    /\ subCb' = CbAfter(holders', subCb)
    /\ pubCount' = CountAfter(holders', pubCount)
    /\ impl_' = "null"
    /\ sub_' = NoSub
    /\ lastCall' = [op |-> "shutdown", pre |-> PreKind, arg |-> <<>>,
                    result |-> NoResult]
    /\ UNCHANGED <<life, nextSub, nextMsg, deliveryVars, logVars, inspectorVars>>

\* a call of getTopic() by the control thread
CallGetTopic ==
    /\ life = "alive"
    /\ \E r \in getTopic :
        lastCall' = [op |-> "getTopic", pre |-> PreKind, arg |-> <<>>,
                     result |-> r]
    /\ UNCHANGED <<adapterVars, runtimeVars, deliveryVars, logVars, inspectorVars>>

\* a call of getNumPublishers() by the control thread
CallGetNumPublishers ==
    /\ life = "alive"
    /\ \E r \in getNumPublishers :
        lastCall' = [op |-> "getNumPublishers", pre |-> PreKind, arg |-> <<>>,
                     result |-> r]
    /\ UNCHANGED <<adapterVars, runtimeVars, deliveryVars, logVars, inspectorVars>>

\* Destruction of an adapter, in C++ order.  First the most derived part: the
\* subclass's destructor body and the subclass's members (the state its
\* internalCallback uses).
DestroySubclassPart ==
    /\ life = "alive"
    /\ life' = "subclassGone"
    /\ lastCall' = [op |-> "destroy", pre |-> PreKind, arg |-> <<>>,
                    result |-> NoResult]
    /\ UNCHANGED <<impl_, sub_, runtimeVars, deliveryVars, logVars, inspectorVars>>

\* Then ~SimpleSubscriberPlugin(), whose body is empty, and after it the
\* members of SimpleSubscriberPlugin: impl_ is destroyed here.
DestroyBasePart ==
    /\ life = "subclassGone"
    /\ life' = "gone"
    /\ holders' = ReleaseImpl(holders)
    /\ pending' = PendingAfter(holders', pending)
    /\ subTopic' = TopicAfter(holders', subTopic)
    /\ subCb' = CbAfter(holders', subCb)
    /\ pubCount' = CountAfter(holders', pubCount)
    /\ impl_' = "null"
    /\ sub_' = NoSub
    /\ UNCHANGED <<nextSub, nextMsg, deliveryVars, logVars, lastCall,
                   inspectorVars>>

\* ------------------------------------------------ the runtime and delivery

\* a wire message reaches a subscription that exists
MessageArrives ==
    /\ nextMsg <= MaxMsgs
    /\ \E s \in SubIds :
        /\ SubAlive(s)
        /\ pending' = [pending EXCEPT ![s] = Append(@, nextMsg)]
    /\ nextMsg' = nextMsg + 1
    /\ UNCHANGED <<adapterVars, holders, subTopic, subCb, pubCount, nextSub,
                   deliveryVars, logVars, lastCall, inspectorVars>>

\* a publisher on the topic of s appears or goes away
PublishersChange ==
    /\ \E s \in SubIds, n \in 0..MaxPublishers :
        /\ "adapter" \in holders[s]
        /\ n # pubCount[s]
        /\ pubCount' = [pubCount EXCEPT ![s] = n]
    /\ UNCHANGED <<adapterVars, holders, subTopic, subCb, pending, nextSub,
                   nextMsg, deliveryVars, logVars, lastCall, inspectorVars>>

\* (variant) the trampoline captures the callback by reference: by the time
\* a message comes the reference dangles, and some other callback is passed
DecodeRecordDangling(s, m) ==
    [sub |-> s, msg |-> m,
     cb |-> CHOOSE c \in Callbacks : c # subCb[s],
     outcome |-> "running",
     owned |-> (impl_ = "set" /\ sub_ = s), life |-> life]

\* The record of one internalCallback(msg, callback) invocation made by the
\* trampoline of s.
DecodeRecord(s, m) ==
    [sub |-> s, msg |-> m, cb |-> subCb[s], outcome |-> "running",
     owned |-> (impl_ = "set" /\ sub_ = s), life |-> life]

\* The delivery thread dispatches the next message queued on a subscription
\* that exists: it holds the subscription for the length of the call and runs
\* the trampoline, which calls internalCallback(msg, callback) on the adapter.
TrampolineBegin ==
    /\ dpc = "idle"
    /\ \E s \in SubIds :
        /\ SubAlive(s)
        /\ pending[s] # <<>>
        /\ dSub' = s
        /\ dMsg' = Head(pending[s])
        /\ pending' = [pending EXCEPT ![s] = Tail(@)]
        /\ holders' = [holders EXCEPT ![s] = @ \cup {"delivery"}]
        /\ decodeLog' = Append(decodeLog, DecodeRecord(s, Head(pending[s])))
    /\ dpc' = "running"
    /\ UNCHANGED <<adapterVars, subTopic, subCb, pubCount, nextSub, nextMsg,
                   userCalls, escaped, lastCall, inspectorVars>>

\* internalCallback returns or throws.  The trampoline has no handler, so an
\* exception leaves it for the delivery mechanism, which may go on or stop.
TrampolineEnd ==
    /\ dpc = "running"
    /\ \E o \in Outcomes, next \in {"idle", "stopped"} :
        /\ (o # "threw") => (next = "idle")
        /\ decodeLog' = [decodeLog EXCEPT ![Len(decodeLog)].outcome = o]
        /\ userCalls' = IF o = "delivered"
                        THEN Append(userCalls, [cb |-> subCb[dSub], msg |-> dMsg,
                                                by |-> "internalCallback"])
                        ELSE userCalls
        /\ escaped' = IF o = "threw" THEN escaped + 1 ELSE escaped
        /\ dpc' = next
    /\ holders' = DropRef(holders, "delivery", dSub)
    /\ pending' = PendingAfter(holders', pending)
    /\ subTopic' = TopicAfter(holders', subTopic)
    /\ subCb' = CbAfter(holders', subCb)
    /\ dSub' = NoSub
    /\ dMsg' = NoMsg
    /\ UNCHANGED <<adapterVars, pubCount, nextSub, nextMsg, lastCall,
                   inspectorVars>>

\* ------------------------------------------------------------------- Next

Next ==
    \/ subscribeImpl
    \/ subscribeImplWithOptions
    \/ shutdown
    \/ CallGetTopic
    \/ CallGetNumPublishers
    \/ DestroySubclassPart
    \/ DestroyBasePart
    \/ MessageArrives
    \/ PublishersChange
    \/ TrampolineBegin
    \/ TrampolineEnd

Spec == Init /\ [][Next]_vars

\* ==================================================================
\* Properties of the subscription adapter (checked under Spec)
\* ==================================================================

Active == impl_ = "set" /\ sub_ # NoSub
DecodeIndices == 1..Len(decodeLog)
IsSubscribeStep == nextSub' # nextSub
IsDispatchStep == dpc = "idle" /\ dpc' = "running"
IsReturnStep == dpc = "running" /\ dpc' # "running"

\* C1: after shutdown() returns, every outcome getTopic() can have is the
\* empty string and every outcome getNumPublishers() can have is 0, whatever
\* state the call found the adapter in; and a query made on a shut-down
\* adapter returned just that.
ShutdownLeavesInactive ==
    /\ lastCall.op = "shutdown" =>
          /\ getTopic = {Returned(EmptyTopic)}
          /\ getNumPublishers = {Returned(0)}
    /\ (lastCall.op = "getTopic" /\ lastCall.pre = "shutdown") =>
          lastCall.result = Returned(EmptyTopic)
    /\ (lastCall.op = "getNumPublishers" /\ lastCall.pre = "shutdown") =>
          lastCall.result = Returned(0)

\* C1 witness: shutdown() has returned on an adapter that a failed subscribe
\* had left with an Impl that holds no subscription.
ShutdownAfterFailedSubscribe ==
    lastCall.op = "shutdown" /\ lastCall.pre = "failed"

\* C2: every internalCallback invocation began while the adapter held the
\* subscription being dispatched: none begins after shutdown() returned, and
\* subscribe followed by shutdown with nothing dispatched decodes nothing.
NoDecodeAfterShutdown ==
    \A i \in DecodeIndices : decodeLog[i].owned

\* C2 witness: the adapter is shut down, every subscription is gone, all the
\* messages of the run have arrived and at least one was never decoded.
MessageDroppedByShutdown ==
    /\ lastCall.op = "shutdown"
    /\ lastCall.pre = "active"
    /\ \A s \in SubIds : ~SubAlive(s)
    /\ nextMsg > MaxMsgs
    /\ Len(decodeLog) < MaxMsgs

\* C3: while a trampoline runs on an adapter that is not being destroyed, the
\* subscription object that stores it, and so the callback it captured, still
\* exists, also when shutdown() has run in the meantime.
InFlightClosureValid ==
    (dpc = "running" /\ life = "alive") =>
        /\ SubAlive(dSub)
        /\ subCb[dSub] = decodeLog[Len(decodeLog)].cb
        /\ subCb[dSub] \in Callbacks

\* C3 witness: shutdown() returned while a trampoline was running; only the
\* delivery thread still holds the subscription.
ShutdownDuringDecode ==
    /\ dpc = "running"
    /\ life = "alive"
    /\ lastCall.op = "shutdown"
    /\ lastCall.pre = "active"
    /\ holders[dSub] = {"delivery"}

\* an earlier shutdown() is known to have happened
ShutdownWasCalled ==
    \/ lastCall.op = "shutdown"
    \/ lastCall.pre = "shutdown"
    \/ PreKind = "shutdown"

\* C4 as stated: once shutdown() has been called no subscription is active
\* on the adapter ever again.
InertForever ==
    ShutdownWasCalled => ~Active

\* C4 amended: an inactive adapter stays inactive over every step that is not
\* a subscribe call, with getTopic() empty and getNumPublishers() 0.
InertUntilSubscribe ==
    [][(impl_ = "null" /\ ~IsSubscribeStep) =>
          /\ impl_' = "null"
          /\ getTopic' = {Returned(EmptyTopic)}
          /\ getNumPublishers' = {Returned(0)}]_vars

\* C4 witness: a subscribe call made after shutdown() has returned and the
\* adapter holds a subscription again, while the trampoline of the
\* subscription it gave up still runs.
ResubscribedAfterShutdown ==
    /\ lastCall.op = "subscribe"
    /\ lastCall.pre = "shutdown"
    /\ Active
    /\ dpc = "running"
    /\ dSub # sub_

\* C5 as stated: once any part of the adapter is destroyed the adapter holds
\* no subscription, and no internalCallback invocation began on an adapter
\* that was already partly destroyed.
DestructorReleasesFirst ==
    /\ life # "alive" => \A s \in SubIds : "adapter" \notin holders[s]
    /\ \A i \in DecodeIndices : decodeLog[i].life = "alive"

\* C6 as stated: getTopic() returns the topic of the active subscription or
\* the empty string, getNumPublishers() returns 0 when none is active, neither
\* faults, and after a subscribe that threw no subscription is active.
QueriesTotal ==
    /\ lastCall.op = "getTopic" =>
          lastCall.result = Returned(IF Active THEN subTopic[sub_] ELSE EmptyTopic)
    /\ lastCall.op = "getNumPublishers" =>
          /\ ~lastCall.result.fault
          /\ ~Active => lastCall.result = Returned(0)
    /\ lastCall.op = "subscribeThrew" =>
          \A s \in SubIds : "adapter" \notin holders[s]

\* C7: a shutdown() call on an adapter with no Impl (never subscribed, or
\* already shut down) returns without a fault and changes nothing: nothing is
\* released a second time.
ShutdownIdempotent ==
    [][(lastCall' # lastCall /\ lastCall'.op = "shutdown" /\ impl_ = "null") =>
          /\ lastCall'.result = NoResult
          /\ UNCHANGED <<adapterVars, runtimeVars, deliveryVars, logVars>>]_vars

\* C7 witness: shutdown() has returned for the second time in a row, while
\* the trampoline of the subscription the first call gave up still runs.
ShutdownTwice ==
    /\ lastCall.op = "shutdown"
    /\ lastCall.pre = "shutdown"
    /\ dpc = "running"

\* C8: a dispatch makes exactly one internalCallback invocation, with the
\* dispatched message and the callback given to the subscribe call that
\* created the subscription, and calls no user callback itself; decode
\* invocations come from dispatches only, and user callbacks are invoked by
\* internalCallback only.
OneDecodePerMessage ==
    [][/\ IsDispatchStep =>
            /\ decodeLog' = Append(decodeLog,
                                   [DecodeRecord(dSub', Head(pending[dSub']))
                                        EXCEPT !.cb = subCb[dSub']])
            /\ dMsg' = Head(pending[dSub'])
            /\ userCalls' = userCalls
       /\ Len(decodeLog') # Len(decodeLog) => IsDispatchStep
       /\ (IsSubscribeStep /\ sub_' # NoSub) => subCb'[sub_'] = lastCall'.arg[2]
       /\ \A s \in SubIds :
            (SubAlive(s) /\ holders'[s] # {}) => subCb'[s] = subCb[s]
       /\ \A i \in 1..Len(userCalls') : userCalls'[i].by = "internalCallback"
       /\ Len(userCalls') # Len(userCalls) =>
            /\ IsReturnStep
            /\ userCalls' = Append(userCalls, [cb |-> decodeLog[Len(decodeLog)].cb,
                                               msg |-> dMsg,
                                               by |-> "internalCallback"])]_vars

\* C8 witness: two messages were decoded on the active subscription, which
\* was created with the second callback.
TwoMessagesDecoded ==
    /\ Len(decodeLog) = 2
    /\ Active
    /\ decodeLog[1].sub = sub_ /\ decodeLog[2].sub = sub_
    /\ decodeLog[1].msg # decodeLog[2].msg
    /\ decodeLog[2].cb = "cb2"
    /\ decodeLog[2].outcome = "delivered"

\* C9 as stated: no exception leaves a trampoline, and when an invocation
\* ends the delivery thread goes on and the adapter keeps its subscription.
DecodeFailureContained ==
    [][/\ escaped' = escaped
       /\ IsReturnStep =>
            /\ dpc' = "idle"
            /\ "adapter" \in holders[dSub] => "adapter" \in holders'[dSub]]_vars

\* ==================================================================
\* list_transports
\* ==================================================================

\* Strings are sequences of tokens; "" is <<>>.  The tokens are ordered as the
\* strings they stand for ('_' < 'r' < 'z', "_pub" < "_sub").
TokenRank(tok) ==
    CASE tok = "_pub" -> 1
      [] tok = "_sub" -> 2
      [] tok = "raw" -> 3
      [] tok = "zip" -> 4

\* std::string operator< on token strings
RECURSIVE StrLess(_, _)
StrLess(a, b) ==
    IF b = <<>> THEN FALSE
    ELSE IF a = <<>> THEN TRUE
    ELSE IF Head(a) = Head(b) THEN StrLess(Tail(a), Tail(b))
    ELSE TokenRank(Head(a)) < TokenRank(Head(b))

\* the lookup names a registry can declare
PubCandidates == {<<"raw", "_pub">>, <<"zip", "_pub">>, <<"raw">>}
SubCandidates == {<<"raw", "_sub">>, <<"zip", "_sub">>, <<"raw", "_sub", "_sub">>}

\* the lists of distinct names, of at most MaxDeclared names, over a set
RECURSIVE ListsOver(_, _)
ListsOver(S, n) ==
    IF n = 0 THEN {<<>>}
    ELSE LET shorter == ListsOver(S, n - 1)
         IN  shorter \cup
             {Append(l, x) : l \in {y \in shorter : Len(y) = n - 1}, x \in S}

Distinct(l) == \A i, j \in 1..Len(l) : i # j => l[i] # l[j]
DeclaredLists(S) == {l \in ListsOver(S, MaxDeclared) : Distinct(l)}

\* enum PluginStatus
PluginStatus == {"SUCCESS", "CREATE_FAILURE", "LIB_LOAD_FAILURE", "DOES_NOT_EXIST"}

\* (variant) TransportDesc without the member initialisers of its
\* constructor: the statuses are value-initialised to the first enumerator
TransportDescZeroed ==
    [package_name |-> "", pub_name |-> <<>>, pub_status |-> "SUCCESS",
     sub_name |-> <<>>, sub_status |-> "SUCCESS"]

\* TransportDesc::TransportDesc()
TransportDesc ==
    [package_name |-> "", pub_name |-> <<>>, pub_status |-> "DOES_NOT_EXIST",
     sub_name |-> <<>>, sub_status |-> "DOES_NOT_EXIST"]

\* point_cloud_transport::erase_last_copy(input, search), for a search string
\* that is one token: the trailing search is removed, once
erase_last_copy(input, search) ==
    IF input # <<>> /\ input[Len(input)] = search
    THEN SubSeq(input, 1, Len(input) - 1)
    ELSE input

\* ClassLoader::getClassPackage(lookup_name): the package that declares the
\* plugin.  The zip subscriber plugins come from a package of their own, all
\* other plugins from one package.
getClassPackage(role, lookup_name) ==
    IF role = "sub" /\ lookup_name[1] = "zip" THEN "zip_plugins" ELSE "plugins"

\* ClassLoader::getClassDescription(lookup_name)
getClassDescription(role, lookup_name) == <<role, "description of">> \o lookup_name

\* how ClassLoader::createUniqueInstance(lookup_name) can end
CreateOutcomes == {"created", "LibraryLoadException", "CreateClassException"}

\* the status the try / catch blocks store for an outcome
StatusOf(outcome) ==
    CASE outcome = "created" -> "SUCCESS"
      [] outcome = "LibraryLoadException" -> "LIB_LOAD_FAILURE"
      [] outcome = "CreateClassException" -> "CREATE_FAILURE"

\* transports[key]: std::map::operator[] inserts a default TransportDesc
Entry(m, key) == IF key \in DOMAIN m THEN m[key] ELSE TransportDesc

Put(m, key, td) ==
    [k \in DOMAIN m \cup {key} |-> IF k = key THEN td ELSE m[k]]

InitInspector ==
    /\ ipc = "pub"
    /\ pubDeclared \in DeclaredLists(PubCandidates)
    /\ subDeclared \in DeclaredLists(SubCandidates)
    /\ idx = 1
    /\ transports = <<>>
    /\ problem_package = FALSE
    /\ summary = <<>>
    /\ details = <<>>
    /\ exitCode = -1
    /\ probes = <<>>

\* (variant) the publisher loop strips the subscriber suffix
PublisherIdentityStripsSub(lookup_name) == erase_last_copy(lookup_name, "_sub")

\* std::string transport_name = erase_last_copy(lookup_name, "_pub")
PublisherIdentity(lookup_name) == erase_last_copy(lookup_name, "_pub")

\* (variant) the subscriber loop, copied from the publisher loop, still
\* strips "_pub"
SubscriberIdentityStripsPub(lookup_name) == erase_last_copy(lookup_name, "_pub")

\* std::string transport_name = erase_last_copy(lookup_name, "_sub")
SubscriberIdentity(lookup_name) == erase_last_copy(lookup_name, "_sub")

\* what one turn of the publisher loop writes into the descriptor td
PublisherProbed(td, lookup_name, outcome) ==
    [td EXCEPT !.pub_name = lookup_name,
               !.package_name = getClassPackage("pub", lookup_name),
               !.pub_status = StatusOf(outcome)]

\* (variant) the subscriber loop leaves package_name as the publisher loop
\* set it
SubscriberProbedKeepsPackage(td, lookup_name, outcome) ==
    [td EXCEPT !.sub_name = lookup_name,
               !.package_name = IF @ = "" THEN getClassPackage("sub", lookup_name)
                                ELSE @,
               !.sub_status = StatusOf(outcome)]

\* (variant) the subscriber loop assigns a new descriptor to the entry
SubscriberProbedFresh(td, lookup_name, outcome) ==
    [package_name |-> getClassPackage("sub", lookup_name),
     pub_name |-> <<>>, pub_status |-> "DOES_NOT_EXIST",
     sub_name |-> lookup_name, sub_status |-> StatusOf(outcome)]

\* what one turn of the subscriber loop writes into the descriptor td
SubscriberProbed(td, lookup_name, outcome) ==
    [td EXCEPT !.sub_name = lookup_name,
               !.package_name = getClassPackage("sub", lookup_name),
               !.sub_status = StatusOf(outcome)]

\* (variant) the publisher loop without the catch clauses: an exception of
\* createUniqueInstance ends the program
ProbePublisherUncaught ==
    /\ ipc = "pub"
    /\ idx <= Len(pubDeclared)
    /\ \E outcome \in CreateOutcomes :
        LET lookup_name == pubDeclared[idx]
            transport_name == PublisherIdentity(lookup_name)
            td == Entry(transports, transport_name)
        IN  /\ transports' = Put(transports, transport_name,
                                 [td EXCEPT !.pub_name = lookup_name,
                                            !.package_name = getClassPackage("pub", lookup_name),
                                            !.pub_status = IF outcome = "created"
                                                           THEN "SUCCESS" ELSE @])
            /\ probes' = Append(probes, [role |-> "pub", name |-> lookup_name,
                                         key |-> transport_name,
                                         outcome |-> outcome])
            /\ ipc' = IF outcome = "created" THEN ipc ELSE "done"
            /\ exitCode' = IF outcome = "created" THEN exitCode ELSE 1
    /\ idx' = idx + 1
    /\ UNCHANGED <<pubDeclared, subDeclared, problem_package,
                   summary, details>>
    /\ UNCHANGED <<adapterVars, runtimeVars, deliveryVars, logVars, lastCall>>

\* one turn of the loop over pub_loader.getDeclaredClasses()
ProbePublisher ==
    /\ ipc = "pub"
    /\ idx <= Len(pubDeclared)
    /\ \E outcome \in CreateOutcomes :
        LET lookup_name == pubDeclared[idx]
            transport_name == PublisherIdentity(lookup_name)
            td == Entry(transports, transport_name)
        IN  /\ transports' = Put(transports, transport_name,
                                 PublisherProbed(td, lookup_name, outcome))
            /\ probes' = Append(probes, [role |-> "pub", name |-> lookup_name,
                                         key |-> transport_name,
                                         outcome |-> outcome])
    /\ idx' = idx + 1
    /\ UNCHANGED <<ipc, pubDeclared, subDeclared, problem_package,
                   summary, details, exitCode>>
    /\ UNCHANGED <<adapterVars, runtimeVars, deliveryVars, logVars, lastCall>>

\* the loop over the publisher registry ends
PublisherPassDone ==
    /\ ipc = "pub"
    /\ idx > Len(pubDeclared)
    /\ ipc' = "sub"
    /\ idx' = 1
    /\ UNCHANGED <<pubDeclared, subDeclared, transports,
                   problem_package, summary, details, exitCode>>
    /\ UNCHANGED <<adapterVars, runtimeVars, deliveryVars, logVars, lastCall,
                   probes>>

\* one turn of the loop over sub_loader.getDeclaredClasses()
ProbeSubscriber ==
    /\ ipc = "sub"
    /\ idx <= Len(subDeclared)
    /\ \E outcome \in CreateOutcomes :
        LET lookup_name == subDeclared[idx]
            transport_name == SubscriberIdentity(lookup_name)
            td == Entry(transports, transport_name)
        IN  /\ transports' = Put(transports, transport_name,
                                 SubscriberProbed(td, lookup_name, outcome))
            /\ probes' = Append(probes, [role |-> "sub", name |-> lookup_name,
                                         key |-> transport_name,
                                         outcome |-> outcome])
    /\ idx' = idx + 1
    /\ UNCHANGED <<ipc, pubDeclared, subDeclared, problem_package,
                   summary, details, exitCode>>
    /\ UNCHANGED <<adapterVars, runtimeVars, deliveryVars, logVars, lastCall>>

\* the loop over the subscriber registry ends; bool problem_package = false
SubscriberPassDone ==
    /\ ipc = "sub"
    /\ idx > Len(subDeclared)
    /\ ipc' = "summary"
    /\ problem_package' = FALSE
    /\ UNCHANGED <<pubDeclared, subDeclared, idx, transports, summary,
                   details, exitCode>>
    /\ UNCHANGED <<adapterVars, runtimeVars, deliveryVars, logVars, lastCall,
                   probes>>

\* the keys a loop over the map has still to visit, and the one it visits
\* next: std::map iterates in key order
Remaining(printed) ==
    DOMAIN transports \ {printed[i].name : i \in 1..Len(printed)}

NextKey(printed) ==
    CHOOSE k \in Remaining(printed) :
        \A j \in Remaining(printed) : j = k \/ StrLess(k, j)

\* (variant) the summary looks at the publisher side only
IsProblemPubOnly(td) ==
    td.pub_status = "CREATE_FAILURE" \/ td.pub_status = "LIB_LOAD_FAILURE"

\* the condition of the summary loop
IsProblem(td) ==
    \/ (td.pub_status = "CREATE_FAILURE" \/ td.pub_status = "LIB_LOAD_FAILURE")
    \/ (td.sub_status = "CREATE_FAILURE" \/ td.sub_status = "LIB_LOAD_FAILURE")

\* one turn of the summary loop
SummaryLine ==
    /\ ipc = "summary"
    /\ Remaining(summary) # {}
    /\ LET key == NextKey(summary)
           td == transports[key]
       IN  /\ summary' = Append(summary,
                                [name |-> key, flagged |-> IsProblem(td),
                                 package |-> IF IsProblem(td) THEN td.package_name
                                             ELSE ""])
           /\ problem_package' = IF IsProblem(td) THEN TRUE ELSE problem_package
    /\ UNCHANGED <<ipc, pubDeclared, subDeclared, idx, transports,
                   details, exitCode>>
    /\ UNCHANGED <<adapterVars, runtimeVars, deliveryVars, logVars, lastCall,
                   probes>>

\* the summary loop ends; "(*)" is printed if (problem_package); "Details:"
SummaryDone ==
    /\ ipc = "summary"
    /\ Remaining(summary) = {}
    /\ ipc' = "details"
    /\ UNCHANGED <<pubDeclared, subDeclared, idx, transports,
                   problem_package, summary, details, exitCode>>
    /\ UNCHANGED <<adapterVars, runtimeVars, deliveryVars, logVars, lastCall,
                   probes>>

\* (variant) the hint tests the library-load failure first
HintLibLoadFirst(td) ==
    IF td.pub_status = "LIB_LOAD_FAILURE" \/ td.sub_status = "LIB_LOAD_FAILURE"
    THEN "not built"
    ELSE IF td.pub_status = "CREATE_FAILURE" \/ td.sub_status = "CREATE_FAILURE"
         THEN "built but could not be loaded"
         ELSE "none"

\* the remediation hint of a detail block
Hint(td) ==
    IF td.pub_status = "CREATE_FAILURE" \/ td.sub_status = "CREATE_FAILURE"
    THEN "built but could not be loaded"
    ELSE IF td.pub_status = "LIB_LOAD_FAILURE" \/ td.sub_status = "LIB_LOAD_FAILURE"
         THEN "not built"
         ELSE "none"

\* one turn of the details loop
DetailBlock ==
    /\ ipc = "details"
    /\ Remaining(details) # {}
    /\ LET key == NextKey(details)
           td == transports[key]
       IN  details' = Append(details,
                [name |-> key,
                 hint |-> Hint(td),
                 package |-> td.package_name,
                 publisher |-> IF td.pub_status = "DOES_NOT_EXIST"
                               THEN <<"No publisher provided">>
                               ELSE getClassDescription("pub", td.pub_name),
                 subscriber |-> IF td.sub_status = "DOES_NOT_EXIST"
                                THEN <<"No subscriber provided">>
                                ELSE getClassDescription("sub", td.sub_name)])
    /\ UNCHANGED <<ipc, pubDeclared, subDeclared, idx, transports,
                   problem_package, summary, exitCode>>
    /\ UNCHANGED <<adapterVars, runtimeVars, deliveryVars, logVars, lastCall,
                   probes>>

\* the details loop ends; return 0
Exit ==
    /\ ipc = "details"
    /\ Remaining(details) = {}
    /\ ipc' = "done"
    /\ exitCode' = 0
    /\ UNCHANGED <<pubDeclared, subDeclared, idx, transports,
                   problem_package, summary, details>>
    /\ UNCHANGED <<adapterVars, runtimeVars, deliveryVars, logVars, lastCall,
                   probes>>

InspectorInit == InitAdapter /\ InitInspector

InspectorNext ==
    \/ ProbePublisher
    \/ PublisherPassDone
    \/ ProbeSubscriber
    \/ SubscriberPassDone
    \/ SummaryLine
    \/ SummaryDone
    \/ DetailBlock
    \/ Exit

InspectorSpec == InspectorInit /\ [][InspectorNext]_vars

\* main() is one thread that runs to its end: a step that can be taken is
\* taken
InspectorFairSpec == InspectorSpec /\ WF_vars(InspectorNext)

\* ==================================================================
\* Properties of list_transports (checked under InspectorSpec)
\* ==================================================================

Failing(status) == status \in {"LIB_LOAD_FAILURE", "CREATE_FAILURE"}

\* C10: once the summary loop has ended, problem_package is true if and only
\* if some descriptor of the table has a failing publisher status or a
\* failing subscriber status.
ProblemPackageIffFailure ==
    ipc \in {"details", "done"} =>
        (problem_package <=>
            \E k \in DOMAIN transports :
                Failing(transports[k].pub_status) \/ Failing(transports[k].sub_status))

\* C10 witness: the run has ended with problem_package true, where the only
\* failure is a construction failure on the subscriber side.
SubscriberFailureFlagged ==
    /\ ipc = "done"
    /\ problem_package
    /\ \A k \in DOMAIN transports : ~Failing(transports[k].pub_status)
    /\ \E k \in DOMAIN transports :
        /\ transports[k].pub_status = "SUCCESS"
        /\ transports[k].sub_status = "CREATE_FAILURE"
    /\ Cardinality(DOMAIN transports) >= 2

ProbeIndices == 1..Len(probes)
FailedOutcome(o) == o \in {"LibraryLoadException", "CreateClassException"}
FlaggedInSummary(key) ==
    \E j \in 1..Len(summary) : summary[j].name = key /\ summary[j].flagged

\* C11 as stated: at the end of the run, for every probe that raised a
\* library-load or construction failure the identity derived from the probed
\* name is flagged in the summary and problem_package is true.
FailedPluginsFlagged ==
    ipc = "done" =>
        \A i \in ProbeIndices :
            FailedOutcome(probes[i].outcome) =>
                problem_package /\ FlaggedInSummary(probes[i].key)

\* the identities of the two registries: each lookup name without its role
\* suffix
Identities ==
    {erase_last_copy(pubDeclared[i], "_pub") : i \in 1..Len(pubDeclared)}
    \cup {erase_last_copy(subDeclared[i], "_sub") : i \in 1..Len(subDeclared)}

NamesOf(lines) == {lines[i].name : i \in 1..Len(lines)}

\* C12: once both passes are over the table has an entry for each identity
\* derived from a lookup name of either registry and for nothing else, and
\* the finished report has one summary line and one detail block for each.
TableHoldsTheIdentities ==
    /\ ipc \in {"summary", "details", "done"} => DOMAIN transports = Identities
    /\ ipc = "done" =>
          /\ NamesOf(summary) = Identities
          /\ Len(summary) = Cardinality(Identities)
          /\ NamesOf(details) = Identities
          /\ Len(details) = Cardinality(Identities)

\* C12 witness: the run has ended; one identity was declared in both
\* registries and merged into one entry, another by the subscriber registry
\* only.
MergedAndSubscriberOnly ==
    /\ ipc = "done"
    /\ Cardinality(DOMAIN transports) < Len(pubDeclared) + Len(subDeclared)
    /\ \E k \in DOMAIN transports :
          transports[k].pub_name # <<>> /\ transports[k].sub_name # <<>>
    /\ \E k \in DOMAIN transports :
          transports[k].pub_name = <<>> /\ transports[k].sub_name # <<>>

\* the probes made are those of the publisher registry, in order, followed by
\* those of the subscriber registry, in order: each declared name once
ProbedEachOnce ==
    /\ Len(probes) = Len(pubDeclared) + Len(subDeclared)
    /\ \A i \in 1..Len(pubDeclared) :
          probes[i].role = "pub" /\ probes[i].name = pubDeclared[i]
    /\ \A i \in 1..Len(subDeclared) :
          /\ probes[Len(pubDeclared) + i].role = "sub"
          /\ probes[Len(pubDeclared) + i].name = subDeclared[i]

\* C13: whatever the outcomes of the probes, the run comes to its end and
\* stays there with exit code 0, having probed every declared name of both
\* registries exactly once and printed a summary line and a detail block for
\* every entry of the table.
InspectorCompletes ==
    <>[](/\ ipc = "done"
         /\ exitCode = 0
         /\ ProbedEachOnce
         /\ Len(summary) = Cardinality(DOMAIN transports)
         /\ Len(details) = Cardinality(DOMAIN transports))

\* C13 witness: the run has ended with exit code 0 after a probe that raised
\* a library-load failure, one that raised a construction failure, and one
\* that succeeded after them.
CompletedDespiteFailures ==
    /\ ipc = "done"
    /\ exitCode = 0
    /\ \E i, j, k \in ProbeIndices :
          /\ i < k /\ j < k
          /\ probes[i].outcome = "LibraryLoadException"
          /\ probes[j].outcome = "CreateClassException"
          /\ probes[k].outcome = "created"

\* the probes made so far of one role that wrote to the entry of one identity
ProbesOf(role, key) ==
    {i \in ProbeIndices : probes[i].role = role /\ probes[i].key = key}

LastOf(S) == CHOOSE i \in S : \A j \in S : j <= i

\* what the report calls the classification of an instantiation attempt
Classified(outcome, status) ==
    /\ outcome = "LibraryLoadException" => status = "LIB_LOAD_FAILURE"
    /\ outcome = "CreateClassException" => status = "CREATE_FAILURE"
    /\ outcome = "created" => status = "SUCCESS"

\* C14: in every state, the status and the lookup name an entry holds for a
\* role are those of the last probe of that role written to the entry (the
\* status being the classification of that probe's outcome), whatever probes
\* of the other role were written to the entry before or after it.
StatusIsClassification ==
    \A key \in DOMAIN transports :
        /\ ProbesOf("pub", key) # {} =>
              LET p == probes[LastOf(ProbesOf("pub", key))]
              IN  /\ Classified(p.outcome, transports[key].pub_status)
                  /\ transports[key].pub_name = p.name
        /\ ProbesOf("sub", key) # {} =>
              LET p == probes[LastOf(ProbesOf("sub", key))]
              IN  /\ Classified(p.outcome, transports[key].sub_status)
                  /\ transports[key].sub_name = p.name

\* C14 witness: an entry whose publisher probe ended in a construction
\* failure and whose subscriber probe, made after it, ended in a library-load
\* failure.
BothRolesFailedDifferently ==
    \E key \in DOMAIN transports :
        /\ ProbesOf("pub", key) # {} /\ ProbesOf("sub", key) # {}
        /\ probes[LastOf(ProbesOf("pub", key))].outcome = "CreateClassException"
        /\ probes[LastOf(ProbesOf("sub", key))].outcome = "LibraryLoadException"
        /\ transports[key].pub_status = "CREATE_FAILURE"
        /\ transports[key].sub_status = "LIB_LOAD_FAILURE"

\* the line of a report part that is about one identity
LineOf(lines, key) ==
    lines[CHOOSE i \in 1..Len(lines) : lines[i].name = key]

\* the registries of the example: {raw_pub, zip_pub} and {raw_sub}, every
\* plugin instantiating
ExampleRun ==
    /\ Len(pubDeclared) = 2
    /\ {pubDeclared[1], pubDeclared[2]} = {<<"raw", "_pub">>, <<"zip", "_pub">>}
    /\ subDeclared = << <<"raw", "_sub">> >>
    /\ \A i \in ProbeIndices : probes[i].outcome = "created"

\* C15: an identity no name of a registry maps to has the status
\* DOES_NOT_EXIST for that registry's role and its detail block says that the
\* role is not provided; if the plugin of its other role instantiated, its
\* summary line is not flagged.  In the example run the report has raw with
\* both roles SUCCESS, zip with publisher SUCCESS and no subscriber, and
\* problem_package false.
OneRoleIdentityIsNotAProblem ==
    /\ ipc \in {"summary", "details", "done"} =>
          \A key \in DOMAIN transports :
              LET td == transports[key]
              IN  /\ ProbesOf("sub", key) = {} =>
                        /\ td.sub_status = "DOES_NOT_EXIST"
                        /\ key \in NamesOf(details) =>
                              LineOf(details, key).subscriber = <<"No subscriber provided">>
                        /\ (td.pub_status = "SUCCESS" /\ key \in NamesOf(summary)) =>
                              ~LineOf(summary, key).flagged
                  /\ ProbesOf("pub", key) = {} =>
                        /\ td.pub_status = "DOES_NOT_EXIST"
                        /\ key \in NamesOf(details) =>
                              LineOf(details, key).publisher = <<"No publisher provided">>
                        /\ (td.sub_status = "SUCCESS" /\ key \in NamesOf(summary)) =>
                              ~LineOf(summary, key).flagged
    /\ (ipc = "done" /\ ExampleRun) =>
          /\ DOMAIN transports = {<<"raw">>, <<"zip">>}
          /\ transports[<<"raw">>].pub_status = "SUCCESS"
          /\ transports[<<"raw">>].sub_status = "SUCCESS"
          /\ transports[<<"zip">>].pub_status = "SUCCESS"
          /\ transports[<<"zip">>].sub_status = "DOES_NOT_EXIST"
          /\ LineOf(details, <<"zip">>).subscriber = <<"No subscriber provided">>
          /\ ~problem_package

\* C15 witness: the example run has ended, zip being reported without a
\* subscriber and unflagged.
ExampleRunReported ==
    /\ ipc = "done"
    /\ ExampleRun
    /\ transports[<<"zip">>].sub_status = "DOES_NOT_EXIST"
    /\ ~LineOf(summary, <<"zip">>).flagged

\* a name ends in a suffix; the name without its last token
EndsIn(n, suffix) == n # <<>> /\ n[Len(n)] = suffix
WithoutLast(n) == SubSeq(n, 1, Len(n) - 1)

SuffixOf(role) == IF role = "pub" THEN "_pub" ELSE "_sub"

\* the identity a probe used is the lookup name with the trailing role suffix
\* removed exactly once, or the lookup name itself when it does not end in
\* the suffix
StrippedOnce(p) ==
    IF EndsIn(p.name, SuffixOf(p.role))
    THEN p.key = WithoutLast(p.name)
    ELSE p.key = p.name

PackageOfLastRole ==
    \A key \in DOMAIN transports :
        LET all == ProbesOf("pub", key) \cup ProbesOf("sub", key)
            td == transports[key]
        IN  /\ all # {}
            /\ td.package_name = getClassPackage(probes[LastOf(all)].role,
                                                 probes[LastOf(all)].name)
            /\ ipc \in {"summary", "details", "done"} =>
                  /\ ProbesOf("sub", key) # {} =>
                        td.package_name = getClassPackage("sub", td.sub_name)
                  /\ ProbesOf("sub", key) = {} =>
                        td.package_name = getClassPackage("pub", td.pub_name)
                  /\ key \in NamesOf(details) =>
                        LineOf(details, key).package = td.package_name

\* C17 witness: the report names the subscriber plugin's package for an
\* identity whose subscriber plugin comes from another package than its
\* publisher plugin, and the publisher plugin's package for an identity with
\* a publisher only.
PackagesOfBothKinds ==
    /\ ipc = "done"
    /\ \E k1, k2 \in DOMAIN transports :
          /\ ProbesOf("pub", k1) # {} /\ ProbesOf("sub", k1) # {}
          /\ getClassPackage("pub", transports[k1].pub_name) = "plugins"
          /\ LineOf(details, k1).package = "zip_plugins"
          /\ ProbesOf("pub", k2) # {} /\ ProbesOf("sub", k2) = {}
          /\ LineOf(details, k2).package = "plugins"

\* C19: a detail block carries a hint exactly when the summary line of its
\* identity is flagged; the hint is the "built but could not be loaded" one
\* exactly when a role of the identity has the status CREATE_FAILURE, and the
\* "not built" one exactly when no role has CREATE_FAILURE and a role has
\* LIB_LOAD_FAILURE.
HintIffFlagged ==
    \A i \in 1..Len(details) :
        LET key == details[i].name
            td == transports[key]
            construct == "CREATE_FAILURE" \in {td.pub_status, td.sub_status}
            load == "LIB_LOAD_FAILURE" \in {td.pub_status, td.sub_status}
        IN  /\ key \in NamesOf(summary)
            /\ (details[i].hint # "none") <=> LineOf(summary, key).flagged
            /\ (details[i].hint = "built but could not be loaded") <=> construct
            /\ (details[i].hint = "not built") <=> (~construct /\ load)

\* C19 witness: the report has a block with the construction hint for an
\* identity that has a construction failure in one role and a library-load
\* failure in the other, a block with the "not built" hint and a block with
\* no hint.
HintsOfEveryKind ==
    /\ \E i \in 1..Len(details) :
          /\ details[i].hint = "built but could not be loaded"
          /\ {transports[details[i].name].pub_status,
              transports[details[i].name].sub_status}
                = {"CREATE_FAILURE", "LIB_LOAD_FAILURE"}
    /\ \E i \in 1..Len(details) : details[i].hint = "not built"
    /\ \E i \in 1..Len(details) :
          details[i].hint = "none" /\ ~LineOf(summary, details[i].name).flagged

\* ==================================================================
\* Re-subscription of the adapter (checked under Spec)
\* ==================================================================

\* C18: the adapter holds at most one subscription, the one impl_->sub_
\* names; a subscription the adapter let go of exists only as long as the
\* trampoline call that was running on it; right after a subscribe call the
\* adapter holds the subscription that call created, with the callback that
\* call was given, and none of the earlier ones; and the decode invocations
\* follow the order of the subscribe calls, each begun while the adapter held
\* its subscription, so that none begun after a subscribe call uses the
\* callback of an earlier one.
OneSubscriptionOwned ==
    /\ \A s \in SubIds :
          "adapter" \in holders[s] => (impl_ = "set" /\ sub_ = s)
    /\ \A s \in SubIds :
          (SubAlive(s) /\ "adapter" \notin holders[s]) =>
              (dpc = "running" /\ dSub = s /\ holders[s] = {"delivery"})
    /\ lastCall.op = "subscribe" =>
          /\ Active
          /\ sub_ = nextSub - 1
          /\ subCb[sub_] = lastCall.arg[2]
          /\ \A s \in SubIds : s # sub_ => "adapter" \notin holders[s]
    /\ \A i, j \in DecodeIndices :
          i < j => decodeLog[i].sub <= decodeLog[j].sub
    /\ \A i \in DecodeIndices : decodeLog[i].owned

\* C18 witness: a subscribe call on an active adapter has returned; a message
\* was decoded with the first subscription's callback before it and another
\* with the new, different callback after it.
ResubscribedWithOtherCallback ==
    /\ lastCall.op = "subscribe"
    /\ lastCall.pre = "active"
    /\ Len(decodeLog) = 2
    /\ decodeLog[1].sub = 1
    /\ decodeLog[2].sub = 2
    /\ decodeLog[2].cb = lastCall.arg[2]
    /\ decodeLog[1].cb # decodeLog[2].cb
    /\ ~SubAlive(1)

=============================================================================
